---------------------------- MODULE Spec2Model ----------------------------
(***************************************************************************)
(* Medibox (ESP32 medicine reminder), src/src/main.cpp lines 1-986.        *)
(*                                                                         *)
(* The state is the sketch's global variables plus millis() (now), the     *)
(* offset last handed to configTime (configOffset) and the position of     *)
(* the control flow (pc: in loop(), or inside one of the two blocking      *)
(* wait loops of delete_alarm_1/2).                                        *)
(*                                                                         *)
(* Units: time is in milliseconds, as millis().  timeZoneOffset is kept    *)
(* in half hours (the float of the code only ever holds multiples of 0.5   *)
(* in [-12, 12], which are exact): 12.0 h is 24, += 0.5 is + 1.            *)
(* configOffset is in seconds, as the argument of configTime.              *)
(*                                                                         *)
(* One pass of loop() is one step.  The time a pass spends in delay() is   *)
(* added to now inside the step; the time between two passes (display     *)
(* traffic, idling) is the environment's and is the Elapse step.           *)
(***************************************************************************)
EXTENDS Integers, FiniteSets, Sequences, TLC

VARIABLES
    currentState,        \* MenuState currentState
    alarmSettingState,   \* AlarmSettingState alarmSettingState
    menuPosition,        \* int menuPosition
    menuInitialized,     \* bool menuInitialized
    settingHour,         \* int settingHour
    settingMinute,       \* int settingMinute
    timeZoneOffset,      \* float timeZoneOffset, in half hours
    configOffset,        \* gmtOffset_sec last passed to configTime
    alarm1Active, alarm1Hour, alarm1Minute,
    alarm2Active, alarm2Hour, alarm2Minute,
    alarmRinging,        \* bool alarmRinging
    alarmRingingNum,     \* int alarmRingingNum
    alarmStartTime,      \* unsigned long alarmStartTime
    alarmSnoozing,       \* bool alarmSnoozing
    snoozeStartTime,     \* unsigned long snoozeStartTime
    lastButtonPressTime, \* unsigned long lastButtonPressTime
    now,                 \* millis()
    pc,                  \* "loop", "confirm1", "confirm2", "deleted"
    dials,               \* Up/Down presses spent on the setting screens
    presses,             \* button presses accepted so far
    held,                \* the button kept down since its press was accepted
    warnings             \* out-of-range samples check_temp has seen so far

navVars   == <<currentState, alarmSettingState, menuPosition, menuInitialized,
               settingHour, settingMinute>>
tzVars    == <<timeZoneOffset, configOffset>>
alarmVars == <<alarm1Active, alarm1Hour, alarm1Minute,
               alarm2Active, alarm2Hour, alarm2Minute>>
ringVars  == <<alarmRinging, alarmRingingNum, alarmStartTime, alarmSnoozing,
               snoozeStartTime>>
vars == <<navVars, tzVars, alarmVars, ringVars, lastButtonPressTime, now, pc,
          dials, presses, held, warnings>>

---------------------------------------------------------------------------
(* Program constants *)

DEBOUNCE_TIME == 250
BUTTON_DELAY == 50
SNOOZE_DURATION == 5 * 60 * 1000
\* ring_alarm: three times delay(200) + delay(100)
RING_BURST == 3 * (200 + 100)
\* check_temp on a warning: delay(500) + delay(500) + delay(4000)
WARNING_DELAY == 500 + 500 + 4000
SNOOZE_MESSAGE_DELAY == 2000
STOP_MESSAGE_DELAY == 1000
TZ_MESSAGE_DELAY == 1500
ALARM_SET_MESSAGE_DELAY == 2000
WAIT_LOOP_DELAY == 50
\* setup: delay(1000) after the splash screen, after WiFi, after "ready"
\* (WiFi connected at the first test: no delay(500) of the connect loop)
SETUP_DELAY == 3 * 1000
MIN_HEALTHY_TEMP == 24
MAX_HEALTHY_TEMP == 32
MIN_HEALTHY_HUMIDITY == 65
MAX_HEALTHY_HUMIDITY == 80

Buttons == {"UP", "OK_BTN", "DOWN", "CANCEL_BTN"}
MenuStates == {"MAIN_MENU", "SET_TIMEZONE", "SET_ALARM_1", "SET_ALARM_2",
               "VIEW_ALARMS", "DELETE_ALARM", "DELETE_ALARM_1",
               "DELETE_ALARM_2", "NORMAL_DISPLAY"}

---------------------------------------------------------------------------
(* Bounds of the model *)

\* millis() never exceeds MaxNow.
MaxNow == 420000
\* The user presses Up/Down on the setting screens at most MaxDials times.
MaxDials == 2
\* check_button_press accepts at most MaxPresses presses.
MaxPresses == 6
\* Only the first MaxHeld accepted presses of a run may be held down.
MaxHeld == 1
\* The sensor delivers at most MaxWarnings out-of-range samples.
MaxWarnings == 1

\* Time of day (ms) at which millis() is 0: 23:59:00.000 UTC.
BootTimeOfDay == (23 * 60 + 59) * 60 * 1000
DayMs == 24 * 60 * 60 * 1000
MinuteMs == 60 * 1000

\* The levels of the four button lines at a poll: the set of lines read LOW.
Levels == {{}, {"UP"}, {"OK_BTN"}, {"DOWN"}, {"CANCEL_BTN"},
           {"UP", "CANCEL_BTN"}}
\* dht.readTemperature() / dht.readHumidity(): a float is a value, or not a
\* number.
NaN == [nan |-> TRUE, v |-> 0]
Value(x) == [nan |-> FALSE, v |-> x]
\* The samples (temperature, humidity) the sensor delivers.
Samples == {<<NaN, Value(70)>>, <<Value(28), NaN>>, <<Value(28), Value(70)>>,
            <<Value(33), Value(70)>>, <<Value(28), Value(64)>>,
            <<Value(23), Value(81)>>}

---------------------------------------------------------------------------
(* The Time Source: getLocalTime after configTime(configOffset, 0, ...) *)

LocalMs(t) == (BootTimeOfDay + t + configOffset * 1000) % DayMs
tm_hour(t) == LocalMs(t) \div (60 * MinuteMs)
tm_min(t) == (LocalMs(t) \div MinuteMs) % 60
tm_sec(t) == (LocalMs(t) \div 1000) % 60


---------------------------------------------------------------------------
(* Helpers of loop(): each is the function of the same name *)

\* check_button_press without the test against DEBOUNCE_TIME.
check_button_pressNoDebounce(t, lines) ==
    IF "UP" \in lines THEN "UP"
    ELSE IF "OK_BTN" \in lines THEN "OK_BTN"
    ELSE IF "DOWN" \in lines THEN "DOWN"
    ELSE IF "CANCEL_BTN" \in lines THEN "CANCEL_BTN"
    ELSE "NONE"

\* check_button_press at time t with the lines in `lines` read LOW: the
\* button returned ("NONE" inside the debounce window or with no line LOW).
check_button_press(t, lines) ==
    IF t - lastButtonPressTime < DEBOUNCE_TIME THEN "NONE"
    ELSE IF "UP" \in lines THEN "UP"
    ELSE IF "OK_BTN" \in lines THEN "OK_BTN"
    ELSE IF "DOWN" \in lines THEN "DOWN"
    ELSE IF "CANCEL_BTN" \in lines THEN "CANCEL_BTN"
    ELSE "NONE"

\* The time check_button_press returns at: an accepted press costs
\* delay(BUTTON_DELAY).
AfterPoll(t, b) == IF b # "NONE" THEN t + BUTTON_DELAY ELSE t

\* The condition of check_snooze at time t.
SnoozeDue(t) == alarmSnoozing /\ t - snoozeStartTime >= SNOOZE_DURATION

\* check_snooze that rings without clearing alarmSnoozing.
check_snoozeKeepsSnoozing(t) ==
    IF SnoozeDue(t)
    THEN [ringing |-> TRUE, snoozing |-> TRUE, start |-> t,
          t |-> t + RING_BURST]
    ELSE [ringing |-> alarmRinging, snoozing |-> alarmSnoozing,
          start |-> alarmStartTime, t |-> t]

\* check_snooze at time t, ring_alarm(alarmRingingNum) included: the ring
\* flags and alarmStartTime after it, and the time it returns at.
check_snooze(t) ==
    IF SnoozeDue(t)
    THEN [ringing |-> TRUE, snoozing |-> FALSE, start |-> t,
          t |-> t + RING_BURST]
    ELSE [ringing |-> alarmRinging, snoozing |-> alarmSnoozing,
          start |-> alarmStartTime, t |-> t]

\* update_time_with_check_alarm that tests alarm 2 before alarm 1.
MatchingAlarmSecondFirst(t, timeOk, ringing, snoozing) ==
    IF ~timeOk THEN 0
    ELSE IF ringing \/ snoozing THEN 0
    ELSE IF /\ alarm2Active
            /\ tm_hour(t) = alarm2Hour /\ tm_min(t) = alarm2Minute
            /\ tm_sec(t) = 0 THEN 2
    ELSE IF /\ alarm1Active
            /\ tm_hour(t) = alarm1Hour /\ tm_min(t) = alarm1Minute
            /\ tm_sec(t) = 0 THEN 1
    ELSE 0

\* update_time_with_check_alarm that goes on to the match when getLocalTime
\* fails, with the fields of the struct tm as the clock would have set them.
MatchingAlarmIgnoresFailure(t, timeOk, ringing, snoozing) ==
    IF ringing \/ snoozing THEN 0
    ELSE IF /\ alarm1Active
            /\ tm_hour(t) = alarm1Hour /\ tm_min(t) = alarm1Minute
            /\ tm_sec(t) = 0 THEN 1
    ELSE IF /\ alarm2Active
            /\ tm_hour(t) = alarm2Hour /\ tm_min(t) = alarm2Minute
            /\ tm_sec(t) = 0 THEN 2
    ELSE 0

\* update_time_with_check_alarm without the tm_sec == 0 guards.
MatchingAlarmAnySecond(t, timeOk, ringing, snoozing) ==
    IF ~timeOk THEN 0
    ELSE IF ringing \/ snoozing THEN 0
    ELSE IF /\ alarm1Active
            /\ tm_hour(t) = alarm1Hour /\ tm_min(t) = alarm1Minute THEN 1
    ELSE IF /\ alarm2Active
            /\ tm_hour(t) = alarm2Hour /\ tm_min(t) = alarm2Minute THEN 2
    ELSE 0

\* update_time_with_check_alarm at time t: the alarm it rings (1 or 2), or 0.
\* timeOk is the result of getLocalTime.
MatchingAlarm(t, timeOk, ringing, snoozing) ==
    IF ~timeOk THEN 0
    ELSE IF ringing \/ snoozing THEN 0
    ELSE IF /\ alarm1Active
            /\ tm_hour(t) = alarm1Hour /\ tm_min(t) = alarm1Minute
            /\ tm_sec(t) = 0 THEN 1
    ELSE IF /\ alarm2Active
            /\ tm_hour(t) = alarm2Hour /\ tm_min(t) = alarm2Minute
            /\ tm_sec(t) = 0 THEN 2
    ELSE 0

\* check_temp: the classification of one sample.
isnan(x) == x.nan
SampleFailed(temp, hum) == isnan(hum) \/ isnan(temp)
TempWarning(temp) == temp.v < MIN_HEALTHY_TEMP \/ temp.v > MAX_HEALTHY_TEMP
HumidityWarning(hum) ==
    hum.v < MIN_HEALTHY_HUMIDITY \/ hum.v > MAX_HEALTHY_HUMIDITY
\* check_temp without the early return: a failed sample is classified too.
check_temp_delayNoEarlyReturn(temp, hum) ==
    IF TempWarning(temp) \/ HumidityWarning(hum) THEN WARNING_DELAY
    ELSE 0

\* check_temp: the time it blocks for.
check_temp_delay(temp, hum) ==
    IF SampleFailed(temp, hum) THEN 0
    ELSE IF TempWarning(temp) \/ HumidityWarning(hum) THEN WARNING_DELAY
    ELSE 0

\* stop_alarm that also resets alarmRingingNum when it stops the alarm.
stop_alarmClearsNum(snooze, t) ==
    IF snooze
    THEN [ringing |-> FALSE, snoozing |-> TRUE, num |-> alarmRingingNum,
          snoozeStart |-> t, t |-> t + SNOOZE_MESSAGE_DELAY]
    ELSE [ringing |-> FALSE, snoozing |-> FALSE, num |-> 0,
          snoozeStart |-> snoozeStartTime, t |-> t + STOP_MESSAGE_DELAY]

\* stop_alarm(snooze) called at time t: the ring flags, alarmRingingNum and
\* snoozeStartTime after it, and the time it returns at.
stop_alarm(snooze, t) ==
    IF snooze
    THEN [ringing |-> FALSE, snoozing |-> TRUE, num |-> alarmRingingNum,
          snoozeStart |-> t, t |-> t + SNOOZE_MESSAGE_DELAY]
    ELSE [ringing |-> FALSE, snoozing |-> FALSE, num |-> alarmRingingNum,
          snoozeStart |-> snoozeStartTime, t |-> t + STOP_MESSAGE_DELAY]

\* The ringing branch of loop() with CANCEL_BTN routed to stop_alarm(true).
RingingDispatchCancelSnoozes(b, t, cs) ==
    IF b = "CANCEL_BTN" THEN stop_alarm(TRUE, t)
    ELSE IF b = "UP" THEN stop_alarm(FALSE, t)
    ELSE [ringing |-> cs.ringing, snoozing |-> cs.snoozing,
          num |-> alarmRingingNum, snoozeStart |-> snoozeStartTime, t |-> t]

\* The ringing branch of loop(): what button b does at time t.
RingingDispatch(b, t, cs) ==
    IF b = "CANCEL_BTN" THEN stop_alarm(FALSE, t)
    ELSE IF b = "UP" THEN stop_alarm(TRUE, t)
    ELSE [ringing |-> cs.ringing, snoozing |-> cs.snoozing,
          num |-> alarmRingingNum, snoozeStart |-> snoozeStartTime, t |-> t]

---------------------------------------------------------------------------
(* Initial states *)

\* setup() ends: the globals have their initialisers, and millis() has
\* passed the three delay(1000) of setup.
InitBoot ==
    /\ currentState = "NORMAL_DISPLAY"
    /\ alarmSettingState = "SETTING_HOUR"
    /\ menuPosition = 0
    /\ menuInitialized = FALSE
    /\ settingHour = 0 /\ settingMinute = 0
    /\ timeZoneOffset = 0
    /\ configOffset = 0
    /\ alarm1Active = FALSE /\ alarm1Hour = 0 /\ alarm1Minute = 0
    /\ alarm2Active = FALSE /\ alarm2Hour = 0 /\ alarm2Minute = 0
    /\ alarmRinging = FALSE
    /\ alarmRingingNum = 0
    /\ alarmStartTime = 0
    /\ alarmSnoozing = FALSE
    /\ snoozeStartTime = 0
    /\ lastButtonPressTime = 0
    /\ now = SETUP_DELAY
    /\ pc = "loop"

\* The sketch after the five presses OK, DOWN, OK, OK, OK from InitBoot, each
\* made as soon as the debounce window of the one before has closed: alarm 1
\* is saved as 00:00 and the main menu is back.
AtSaved ==
    /\ currentState = "MAIN_MENU"
    /\ alarmSettingState = "SETTING_HOUR"
    /\ menuPosition = 0
    /\ menuInitialized = FALSE
    /\ settingHour = 0 /\ settingMinute = 0
    /\ timeZoneOffset = 0
    /\ configOffset = 0
    /\ alarm1Active = TRUE /\ alarm1Hour = 0 /\ alarm1Minute = 0
    /\ alarm2Active = FALSE /\ alarm2Hour = 0 /\ alarm2Minute = 0
    /\ alarmRinging = FALSE
    /\ alarmRingingNum = 0
    /\ alarmStartTime = 0
    /\ alarmSnoozing = FALSE
    /\ snoozeStartTime = 0
    /\ lastButtonPressTime = SETUP_DELAY + 4 * DEBOUNCE_TIME
    /\ now = lastButtonPressTime + BUTTON_DELAY + ALARM_SET_MESSAGE_DELAY
    /\ pc = "loop"

\* The sketch five presses after AtSaved: DOWN, DOWN, DOWN, DOWN, OK, made
\* the same way: the delete menu is selected and not drawn yet.
AtDeleteMenu ==
    /\ currentState = "DELETE_ALARM"
    /\ alarmSettingState = "SETTING_HOUR"
    /\ menuPosition = 4
    /\ menuInitialized = FALSE
    /\ settingHour = 0 /\ settingMinute = 0
    /\ timeZoneOffset = 0
    /\ configOffset = 0
    /\ alarm1Active = TRUE /\ alarm1Hour = 0 /\ alarm1Minute = 0
    /\ alarm2Active = FALSE /\ alarm2Hour = 0 /\ alarm2Minute = 0
    /\ alarmRinging = FALSE
    /\ alarmRingingNum = 0
    /\ alarmStartTime = 0
    /\ alarmSnoozing = FALSE
    /\ snoozeStartTime = 0
    /\ lastButtonPressTime =
           SETUP_DELAY + 4 * DEBOUNCE_TIME + BUTTON_DELAY
           + ALARM_SET_MESSAGE_DELAY + 4 * DEBOUNCE_TIME
    /\ now = lastButtonPressTime + BUTTON_DELAY
    /\ pc = "loop"

\* The sketch eight presses after AtSaved: CANCEL at once, alarm 1 rings at
\* 00:00:00, UP snoozes it, then OK, DOWN, DOWN, DOWN, DOWN, OK, each made as
\* soon as the debounce window allows: the alarm is snoozed and the delete
\* menu is selected and not drawn yet.
AtSnoozedDeleteMenu ==
    /\ currentState = "DELETE_ALARM"
    /\ alarmSettingState = "SETTING_HOUR"
    /\ menuPosition = 4
    /\ menuInitialized = FALSE
    /\ settingHour = 0 /\ settingMinute = 0
    /\ timeZoneOffset = 0
    /\ configOffset = 0
    /\ alarm1Active = TRUE /\ alarm1Hour = 0 /\ alarm1Minute = 0
    /\ alarm2Active = FALSE /\ alarm2Hour = 0 /\ alarm2Minute = 0
    /\ alarmRinging = FALSE
    /\ alarmRingingNum = 1
    /\ alarmStartTime = MinuteMs
    /\ alarmSnoozing = TRUE
    /\ snoozeStartTime = MinuteMs + RING_BURST + BUTTON_DELAY
    /\ lastButtonPressTime =
           snoozeStartTime + SNOOZE_MESSAGE_DELAY + 5 * DEBOUNCE_TIME
    /\ now = lastButtonPressTime + BUTTON_DELAY
    /\ pc = "loop"

\* The sketch eleven presses after InitBoot: OK, DOWN, DOWN, OK, OK, OK save
\* alarm 2 at 00:00, then DOWN, DOWN, DOWN, DOWN, OK, each made as soon as the
\* debounce window allows: alarm 2 is the only active alarm, and the delete
\* menu is selected and not drawn yet.
AtDeleteMenuOnly2 ==
    /\ currentState = "DELETE_ALARM"
    /\ alarmSettingState = "SETTING_HOUR"
    /\ menuPosition = 4
    /\ menuInitialized = FALSE
    /\ settingHour = 0 /\ settingMinute = 0
    /\ timeZoneOffset = 0
    /\ configOffset = 0
    /\ alarm1Active = FALSE /\ alarm1Hour = 0 /\ alarm1Minute = 0
    /\ alarm2Active = TRUE /\ alarm2Hour = 0 /\ alarm2Minute = 0
    /\ alarmRinging = FALSE
    /\ alarmRingingNum = 0
    /\ alarmStartTime = 0
    /\ alarmSnoozing = FALSE
    /\ snoozeStartTime = 0
    /\ lastButtonPressTime =
           SETUP_DELAY + 5 * DEBOUNCE_TIME + BUTTON_DELAY
           + ALARM_SET_MESSAGE_DELAY + 4 * DEBOUNCE_TIME
    /\ now = lastButtonPressTime + BUTTON_DELAY
    /\ pc = "loop"

\* The sketch six presses after InitBoot: OK, DOWN, DOWN, DOWN, DOWN, OK, each
\* made as soon as the debounce window allows: no alarm is active, and the
\* delete menu is selected and not drawn yet.
AtDeleteMenuNone ==
    /\ currentState = "DELETE_ALARM"
    /\ alarmSettingState = "SETTING_HOUR"
    /\ menuPosition = 4
    /\ menuInitialized = FALSE
    /\ settingHour = 0 /\ settingMinute = 0
    /\ timeZoneOffset = 0
    /\ configOffset = 0
    /\ alarm1Active = FALSE /\ alarm1Hour = 0 /\ alarm1Minute = 0
    /\ alarm2Active = FALSE /\ alarm2Hour = 0 /\ alarm2Minute = 0
    /\ alarmRinging = FALSE
    /\ alarmRingingNum = 0
    /\ alarmStartTime = 0
    /\ alarmSnoozing = FALSE
    /\ snoozeStartTime = 0
    /\ lastButtonPressTime = SETUP_DELAY + 5 * DEBOUNCE_TIME
    /\ now = lastButtonPressTime + BUTTON_DELAY
    /\ pc = "loop"

\* The sketch ten presses after AtSaved: DOWN, DOWN, OK, OK, OK save alarm 2
\* at 00:00 as well, then DOWN, DOWN, DOWN, DOWN, OK, each made as soon as
\* the debounce window allows: both alarms are active, and the delete menu
\* is selected and not drawn yet.
AtDeleteMenuBoth ==
    /\ currentState = "DELETE_ALARM"
    /\ alarmSettingState = "SETTING_HOUR"
    /\ menuPosition = 4
    /\ menuInitialized = FALSE
    /\ settingHour = 0 /\ settingMinute = 0
    /\ timeZoneOffset = 0
    /\ configOffset = 0
    /\ alarm1Active = TRUE /\ alarm1Hour = 0 /\ alarm1Minute = 0
    /\ alarm2Active = TRUE /\ alarm2Hour = 0 /\ alarm2Minute = 0
    /\ alarmRinging = FALSE
    /\ alarmRingingNum = 0
    /\ alarmStartTime = 0
    /\ alarmSnoozing = FALSE
    /\ snoozeStartTime = 0
    /\ lastButtonPressTime =
           SETUP_DELAY + 4 * DEBOUNCE_TIME + BUTTON_DELAY
           + ALARM_SET_MESSAGE_DELAY + 4 * DEBOUNCE_TIME + BUTTON_DELAY
           + ALARM_SET_MESSAGE_DELAY + 4 * DEBOUNCE_TIME
    /\ now = lastButtonPressTime + BUTTON_DELAY
    /\ pc = "loop"

\* The sketch on the SET_TIMEZONE screen, one press short of the edge of the
\* range: from InitBoot the presses OK, OK, the first event of the screen
\* (which only draws it), and then 23 times UP (edge = 12.0 h) or 23 times
\* DOWN (edge = -12.0 h), each made as soon as the debounce window allows.
AtTimezoneEdge(edge) ==
    /\ currentState = "SET_TIMEZONE"
    /\ alarmSettingState = "SETTING_HOUR"
    /\ menuPosition = 0
    /\ menuInitialized = TRUE
    /\ settingHour = 0 /\ settingMinute = 0
    /\ timeZoneOffset = IF edge > 0 THEN edge - 1 ELSE edge + 1
    /\ configOffset = 0
    /\ alarm1Active = FALSE /\ alarm1Hour = 0 /\ alarm1Minute = 0
    /\ alarm2Active = FALSE /\ alarm2Hour = 0 /\ alarm2Minute = 0
    /\ alarmRinging = FALSE
    /\ alarmRingingNum = 0
    /\ alarmStartTime = 0
    /\ alarmSnoozing = FALSE
    /\ snoozeStartTime = 0
    /\ lastButtonPressTime = SETUP_DELAY + 25 * DEBOUNCE_TIME
    /\ now = lastButtonPressTime + BUTTON_DELAY
    /\ pc = "loop"

\* The budgets count from the initial state, and no button is down.
FreshBudgets == dials = 0 /\ presses = 0 /\ warnings = 0 /\ held = "NONE"

Init ==
    /\ \/ InitBoot
       \/ AtSaved
       \/ AtDeleteMenu
       \/ AtSnoozedDeleteMenu
       \/ AtDeleteMenuOnly2
       \/ AtDeleteMenuNone
       \/ AtDeleteMenuBoth
       \/ AtTimezoneEdge(24)
       \/ AtTimezoneEdge(-24)
    /\ FreshBudgets

---------------------------------------------------------------------------
(* The environment: time passing between two polls *)

\* The time from t to the next instant at which the wall clock reads
\* h:m:00.000.
UntilClock(t, h, m) ==
    LET target == (h * 60 + m) * MinuteMs
        d == (target - LocalMs(t)) % DayMs
    IN  IF d = 0 THEN DayMs ELSE d

\* A pass of loop() can begin that rings no alarm and is kept busy by
\* check_temp for WARNING_DELAY.
BusyPassPossible ==
    /\ currentState = "NORMAL_DISPLAY"
    /\ ~alarmRinging /\ ~alarmSnoozing
    /\ warnings < MaxWarnings

\* The instants the next poll is sampled at, as distances from now: the
\* instants at which a guard of the code changes its value, namely the end
\* of the debounce window, the :00 second of an alarm that can ring, and the
\* end of the snooze; and the last millisecond before the :00 second of an
\* alarm that can ring, where a pass begins that is still busy when it comes.
GapChoices ==
    {g \in {lastButtonPressTime + DEBOUNCE_TIME - now} : g > 0}
    \cup {g \in {UntilClock(now, alarm1Hour, alarm1Minute)} :
            alarm1Active /\ ~alarmRinging /\ ~alarmSnoozing}
    \cup {g \in {UntilClock(now, alarm2Hour, alarm2Minute)} :
            alarm2Active /\ ~alarmRinging /\ ~alarmSnoozing}
    \cup {g \in {snoozeStartTime + SNOOZE_DURATION - now} :
            alarmSnoozing /\ g > 0}
    \cup {g \in {UntilClock(now, alarm1Hour, alarm1Minute) - 1} :
            alarm1Active /\ BusyPassPossible /\ g > 0}
    \cup {g \in {UntilClock(now, alarm2Hour, alarm2Minute) - 1} :
            alarm2Active /\ BusyPassPossible /\ g > 0}

\* Inside the wait loops of delete_alarm_1/2 time passes in whole idle
\* iterations: check_button_press with every line HIGH, then delay(50).
WaitIterations(g) ==
    ((g + WAIT_LOOP_DELAY - 1) \div WAIT_LOOP_DELAY) * WAIT_LOOP_DELAY

Elapse ==
    \E g \in GapChoices :
        /\ now' = IF pc = "loop" THEN now + g ELSE now + WaitIterations(g)
        /\ now' <= MaxNow
        /\ held' = IF now' <= lastButtonPressTime + DEBOUNCE_TIME THEN held
                   ELSE "NONE"
        /\ UNCHANGED <<navVars, tzVars, alarmVars, ringVars,
                       lastButtonPressTime, pc, dials, presses, warnings>>

\* The user's finger at a poll that accepts no press: the button is still
\* held if its line is read LOW again.
StillHeld(lines) == IF held \in lines THEN held ELSE "NONE"

\* The budget of presses: an accepted press is counted, and none is
\* accepted beyond MaxPresses.  The accepted button is down at the poll and
\* may stay down.
Counted(b, lines) ==
    /\ presses' = IF b # "NONE" THEN presses + 1 ELSE presses
    /\ presses' <= MaxPresses
    /\ held' = IF b = "NONE" THEN StillHeld(lines)
               ELSE IF presses < MaxHeld THEN b
               ELSE "NONE"

---------------------------------------------------------------------------
(* format_timezone: a String is the sequence of its characters *)

\* String(int) for a number n >= 0: its decimal digits.
Digit(d) == <<"0", "1", "2", "3", "4", "5", "6", "7", "8", "9">>[d + 1]
RECURSIVE String(_)
String(n) ==
    IF n < 10 THEN <<Digit(n)>> ELSE String(n \div 10) \o <<Digit(n % 10)>>

\* std::abs
abs(x) == IF x < 0 THEN -x ELSE x
\* (int) of the float that is tz half hours: truncation toward zero.
IntOfHalfHours(tz) == IF tz >= 0 THEN tz \div 2 ELSE -((-tz) \div 2)

\* format_timezone with frac computed without std::abs.
format_timezoneSignedFrac(tz) ==
    LET sign == IF tz >= 0 THEN <<"+">> ELSE <<"-">>
        whole == IntOfHalfHours(abs(tz))
        frac == (tz - 2 * IntOfHalfHours(tz)) * 30
    IN  <<"U", "T", "C">> \o sign \o
        (IF frac = 0 THEN String(whole)
         ELSE String(whole) \o <<":">> \o
              (IF frac = 30 THEN <<"3", "0">> ELSE <<"0", "0">>))

\* format_timezone(tz), tz in half hours: (tz - (int)tz) * 60 is
\* (tz - 2 * IntOfHalfHours(tz)) * 30.
format_timezone(tz) ==
    LET sign == IF tz >= 0 THEN <<"+">> ELSE <<"-">>
        whole == IntOfHalfHours(abs(tz))
        frac == abs((tz - 2 * IntOfHalfHours(tz)) * 30)
    IN  <<"U", "T", "C">> \o sign \o
        (IF frac = 0 THEN String(whole)
         ELSE String(whole) \o <<":">> \o
              (IF frac = 30 THEN <<"3", "0">> ELSE <<"0", "0">>))

---------------------------------------------------------------------------
(* loop(), alarm not ringing, currentState == NORMAL_DISPLAY *)

\* go_to_menu without the reset of the cursor.
go_to_menuKeepsCursor ==
    /\ currentState' = "MAIN_MENU"
    /\ menuPosition' = menuPosition
    /\ menuInitialized' = FALSE

\* go_to_menu
go_to_menu ==
    /\ currentState' = "MAIN_MENU"
    /\ menuPosition' = 0
    /\ menuInitialized' = FALSE

\* What the OK button does to the menu on the normal display.
NormalDisplayDispatch(b) ==
    IF b = "OK_BTN"
    THEN go_to_menu
    ELSE UNCHANGED <<currentState, menuPosition, menuInitialized>>

LoopNormalDisplayWith(lines, timeOk, sample) ==
    LET temp == sample[1]
        hum == sample[2]
        cs == check_snooze(now)
        a  == MatchingAlarm(cs.t, timeOk, cs.ringing, cs.snoozing)
        t1 == IF a # 0 THEN cs.t + RING_BURST ELSE cs.t
        t2 == t1 + check_temp_delay(temp, hum)
        b  == check_button_press(t2, lines)
    IN  /\ pc = "loop"
        /\ ~cs.ringing
        /\ currentState = "NORMAL_DISPLAY"
        /\ alarmRinging' = (a # 0)
        /\ alarmRingingNum' = IF a # 0 THEN a ELSE alarmRingingNum
        /\ alarmStartTime' = IF a # 0 THEN cs.t ELSE alarmStartTime
        /\ UNCHANGED <<alarmSnoozing, snoozeStartTime>>
        /\ Counted(b, lines)
        /\ lastButtonPressTime' =
               IF b # "NONE" THEN t2 ELSE lastButtonPressTime
        /\ now' = AfterPoll(t2, b)
        /\ now' <= MaxNow
        /\ NormalDisplayDispatch(b)
        /\ warnings' = IF check_temp_delay(temp, hum) > 0
                       THEN warnings + 1 ELSE warnings
        /\ warnings' <= MaxWarnings
        /\ UNCHANGED <<alarmSettingState, settingHour, settingMinute,
                       tzVars, alarmVars, pc, dials>>

LoopNormalDisplay ==
    \E lines \in Levels, timeOk \in BOOLEAN, sample \in Samples :
        LoopNormalDisplayWith(lines, timeOk, sample)

---------------------------------------------------------------------------
(* loop(), alarm ringing (also right after check_snooze rang it again) *)

LoopRingingWith(lines) ==
    LET cs == check_snooze(now)
        b  == check_button_press(cs.t, lines)
        r  == RingingDispatch(b, AfterPoll(cs.t, b), cs)
    IN  /\ pc = "loop"
        /\ cs.ringing
        /\ alarmRinging' = r.ringing
        /\ alarmSnoozing' = r.snoozing
        /\ snoozeStartTime' = r.snoozeStart
        /\ alarmRingingNum' = r.num
        /\ alarmStartTime' = cs.start
        /\ Counted(b, lines)
        /\ lastButtonPressTime' =
               IF b # "NONE" THEN cs.t ELSE lastButtonPressTime
        /\ now' = r.t
        /\ now' <= MaxNow
        /\ UNCHANGED <<navVars, tzVars, alarmVars, pc, dials, warnings>>

LoopRinging ==
    \E lines \in Levels : LoopRingingWith(lines)

---------------------------------------------------------------------------
(* loop(), alarm not ringing, any other screen: run_mode() *)

\* The guard of the run_mode branch of loop().
InRunMode ==
    /\ pc = "loop"
    /\ ~check_snooze(now).ringing
    /\ currentState # "NORMAL_DISPLAY"

\* What every run_mode pass that accepted button b does besides its screen.
Accepted(b) ==
    /\ b # "NONE"
    /\ lastButtonPressTime' = now
    /\ Counted(b, {b})

\* run_mode with no button: returns at once.
RunModeNoButtonWith(lines) ==
    /\ InRunMode
    /\ check_button_press(now, lines) = "NONE"
    /\ held' = StillHeld(lines)
    /\ UNCHANGED <<navVars, tzVars, alarmVars, ringVars,
                   lastButtonPressTime, now, pc, dials, presses, warnings>>

RunModeNoButton ==
    \E lines \in Levels : RunModeNoButtonWith(lines)

\* The switch of the main menu on OK.
MainMenuSelect ==
    /\ currentState' = CASE menuPosition = 0 -> "SET_TIMEZONE"
                         [] menuPosition = 1 -> "SET_ALARM_1"
                         [] menuPosition = 2 -> "SET_ALARM_2"
                         [] menuPosition = 3 -> "VIEW_ALARMS"
                         [] menuPosition = 4 -> "DELETE_ALARM"
                         [] menuPosition = 5 -> "NORMAL_DISPLAY"
                         [] OTHER -> currentState
    /\ menuInitialized' = IF menuPosition \in {0, 4} THEN FALSE
                          ELSE menuInitialized
    /\ settingHour' = CASE menuPosition = 1 -> alarm1Hour
                        [] menuPosition = 2 -> alarm2Hour
                        [] OTHER -> settingHour
    /\ settingMinute' = CASE menuPosition = 1 -> alarm1Minute
                          [] menuPosition = 2 -> alarm2Minute
                          [] OTHER -> settingMinute
    /\ alarmSettingState' = IF menuPosition \in {1, 2} THEN "SETTING_HOUR"
                            ELSE alarmSettingState
    /\ UNCHANGED menuPosition

RunMainMenuWith(lines) ==
    LET b == check_button_press(now, lines)
    IN  /\ InRunMode
        /\ currentState = "MAIN_MENU"
        /\ Accepted(b)
        /\ IF b = "UP" /\ menuPosition > 0
           THEN /\ menuPosition' = menuPosition - 1
                /\ UNCHANGED <<currentState, alarmSettingState,
                               menuInitialized, settingHour,
                               settingMinute>>
           ELSE IF b = "DOWN" /\ menuPosition < 5
           THEN /\ menuPosition' = menuPosition + 1
                /\ UNCHANGED <<currentState, alarmSettingState,
                               menuInitialized, settingHour,
                               settingMinute>>
           ELSE IF b = "OK_BTN"
           THEN MainMenuSelect
           ELSE IF b = "CANCEL_BTN"
           THEN /\ currentState' = "NORMAL_DISPLAY"
                /\ UNCHANGED <<alarmSettingState, menuPosition,
                               menuInitialized, settingHour,
                               settingMinute>>
           ELSE UNCHANGED navVars
        /\ now' = AfterPoll(now, b)
        /\ now' <= MaxNow
        /\ UNCHANGED <<tzVars, alarmVars, ringVars, pc, dials, warnings>>

RunMainMenu ==
    \E lines \in Levels : RunMainMenuWith(lines)

\* The SET_TIMEZONE screen without the tests against 12.0 and -12.0.
TimezoneStepUnclamped(tz, b) ==
    IF b = "UP" THEN tz + 1
    ELSE IF b = "DOWN" THEN tz - 1
    ELSE tz

\* The SET_TIMEZONE screen: what button b makes of the offset tz.
TimezoneStep(tz, b) ==
    IF b = "UP" /\ tz < 24 THEN tz + 1
    ELSE IF b = "DOWN" /\ tz > -24 THEN tz - 1
    ELSE tz

\* The SET_TIMEZONE screen: the offset after button b.
TimezoneAfter(b) == TimezoneStep(timeZoneOffset, b)

\* The offset after n presses of button b, from offset tz.
RECURSIVE TimezoneRepeat(_, _, _)
TimezoneRepeat(tz, b, n) ==
    IF n = 0 THEN tz ELSE TimezoneRepeat(TimezoneStep(tz, b), b, n - 1)

\* The conversion with the offset cut to whole hours first.
OffsetSecondsWholeHours(tz) == (tz \div 2) * 3600

\* int seconds = (int)(timeZoneOffset * 3600)
OffsetSeconds(tz) == tz * 1800

RunSetTimezoneWith(lines) ==
    LET b == check_button_press(now, lines)
        pushed == menuInitialized /\ b = "OK_BTN"
        back == menuInitialized /\ b \in {"OK_BTN", "CANCEL_BTN"}
    IN  /\ InRunMode
        /\ currentState = "SET_TIMEZONE"
        /\ Accepted(b)
        /\ (menuInitialized /\ b \in {"UP", "DOWN"}) => dials < MaxDials
        /\ dials' = IF menuInitialized /\ b \in {"UP", "DOWN"}
                    THEN dials + 1 ELSE dials
        /\ timeZoneOffset' =
               IF menuInitialized THEN TimezoneAfter(b)
               ELSE timeZoneOffset
        /\ configOffset' = IF pushed THEN OffsetSeconds(timeZoneOffset)
                           ELSE configOffset
        /\ IF back
           THEN go_to_menu
           ELSE /\ menuInitialized' = TRUE
                /\ UNCHANGED <<currentState, menuPosition>>
        /\ now' = AfterPoll(now, b)
                  + (IF pushed THEN TZ_MESSAGE_DELAY ELSE 0)
        /\ now' <= MaxNow
        /\ UNCHANGED <<alarmSettingState, settingHour, settingMinute,
                       alarmVars, ringVars, pc, warnings>>

RunSetTimezone ==
    \E lines \in Levels : RunSetTimezoneWith(lines)

\* handle_alarm_setting: the staged values after Up/Down.
HourAfterNoWrap(b, h) ==
    IF b = "UP" THEN h + 1
    ELSE IF b = "DOWN" THEN h - 1
    ELSE h
HourAfter(b, h) ==
    IF b = "UP" THEN (h + 1) % 24
    ELSE IF b = "DOWN" THEN (h + 23) % 24
    ELSE h

MinuteAfter(b, m) ==
    IF b = "UP" THEN (m + 1) % 60
    ELSE IF b = "DOWN" THEN (m + 59) % 60
    ELSE m

\* handle_alarm_setting in which CANCEL on the hour saves the alarm too.
RunSetAlarmWithCancelSaves(lines) ==
    LET b == check_button_press(now, lines)
        alarmNum == IF currentState = "SET_ALARM_1" THEN 1 ELSE 2
        inHour == alarmSettingState = "SETTING_HOUR"
        inMinute == alarmSettingState = "SETTING_MINUTE"
        save == \/ inMinute /\ b = "OK_BTN"
                \/ inHour /\ b = "CANCEL_BTN"
        back == save \/ ((inHour \/ inMinute) /\ b = "CANCEL_BTN")
    IN  /\ InRunMode
        /\ currentState \in {"SET_ALARM_1", "SET_ALARM_2"}
        /\ Accepted(b)
        /\ b \in {"UP", "DOWN"} => dials < MaxDials
        /\ dials' = IF b \in {"UP", "DOWN"} THEN dials + 1 ELSE dials
        /\ settingHour' = IF inHour THEN HourAfter(b, settingHour)
                          ELSE settingHour
        /\ settingMinute' = IF inMinute THEN MinuteAfter(b, settingMinute)
                            ELSE settingMinute
        /\ alarmSettingState' =
               IF inHour /\ b = "OK_BTN" THEN "SETTING_MINUTE"
               ELSE IF save THEN "SETTING_HOUR"
               ELSE alarmSettingState
        /\ IF save /\ alarmNum = 1
           THEN /\ alarm1Hour' = settingHour
                /\ alarm1Minute' = settingMinute
                /\ alarm1Active' = TRUE
           ELSE UNCHANGED <<alarm1Hour, alarm1Minute, alarm1Active>>
        /\ IF save /\ alarmNum = 2
           THEN /\ alarm2Hour' = settingHour
                /\ alarm2Minute' = settingMinute
                /\ alarm2Active' = TRUE
           ELSE UNCHANGED <<alarm2Hour, alarm2Minute, alarm2Active>>
        /\ IF back
           THEN go_to_menu
           ELSE UNCHANGED <<currentState, menuPosition, menuInitialized>>
        /\ now' = AfterPoll(now, b)
                  + (IF save THEN ALARM_SET_MESSAGE_DELAY ELSE 0)
        /\ now' <= MaxNow
        /\ UNCHANGED <<tzVars, ringVars, pc, warnings>>

\* handle_alarm_setting(alarmNum, b), reached from run_mode on SET_ALARM_1/2.
RunSetAlarmWith(lines) ==
    LET b == check_button_press(now, lines)
        alarmNum == IF currentState = "SET_ALARM_1" THEN 1 ELSE 2
        inHour == alarmSettingState = "SETTING_HOUR"
        inMinute == alarmSettingState = "SETTING_MINUTE"
        save == inMinute /\ b = "OK_BTN"
        back == save \/ ((inHour \/ inMinute) /\ b = "CANCEL_BTN")
    IN  /\ InRunMode
        /\ currentState \in {"SET_ALARM_1", "SET_ALARM_2"}
        /\ Accepted(b)
        /\ b \in {"UP", "DOWN"} => dials < MaxDials
        /\ dials' = IF b \in {"UP", "DOWN"} THEN dials + 1 ELSE dials
        /\ settingHour' = IF inHour THEN HourAfter(b, settingHour)
                          ELSE settingHour
        /\ settingMinute' = IF inMinute THEN MinuteAfter(b, settingMinute)
                            ELSE settingMinute
        /\ alarmSettingState' =
               IF inHour /\ b = "OK_BTN" THEN "SETTING_MINUTE"
               ELSE IF save THEN "SETTING_HOUR"
               ELSE alarmSettingState
        /\ IF save /\ alarmNum = 1
           THEN /\ alarm1Hour' = settingHour
                /\ alarm1Minute' = settingMinute
                /\ alarm1Active' = TRUE
           ELSE UNCHANGED <<alarm1Hour, alarm1Minute, alarm1Active>>
        /\ IF save /\ alarmNum = 2
           THEN /\ alarm2Hour' = settingHour
                /\ alarm2Minute' = settingMinute
                /\ alarm2Active' = TRUE
           ELSE UNCHANGED <<alarm2Hour, alarm2Minute, alarm2Active>>
        /\ IF back
           THEN go_to_menu
           ELSE UNCHANGED <<currentState, menuPosition, menuInitialized>>
        /\ now' = AfterPoll(now, b)
                  + (IF save THEN ALARM_SET_MESSAGE_DELAY ELSE 0)
        /\ now' <= MaxNow
        /\ UNCHANGED <<tzVars, ringVars, pc, warnings>>

RunSetAlarm ==
    \E lines \in Levels : RunSetAlarmWith(lines)

RunViewAlarmsWith(lines) ==
    LET b == check_button_press(now, lines)
    IN  /\ InRunMode
        /\ currentState = "VIEW_ALARMS"
        /\ Accepted(b)
        /\ IF b \in {"CANCEL_BTN", "OK_BTN"}
           THEN go_to_menu
           ELSE UNCHANGED <<currentState, menuPosition, menuInitialized>>
        /\ now' = AfterPoll(now, b)
        /\ now' <= MaxNow
        /\ UNCHANGED <<alarmSettingState, settingHour, settingMinute,
                       tzVars, alarmVars, ringVars, pc, dials, warnings>>

RunViewAlarms ==
    \E lines \in Levels : RunViewAlarmsWith(lines)

\* The cursor the DELETE_ALARM screen starts on.
DeleteMenuEntry(pos) ==
    IF ~alarm1Active /\ ~alarm2Active THEN 2
    ELSE IF alarm1Active THEN 0
    ELSE IF alarm2Active THEN 1
    ELSE pos

\* display_delete_alarm_menu: the cursor it leaves.
display_delete_alarm_menu(pos) ==
    IF ~alarm1Active /\ ~alarm2Active THEN 2
    ELSE LET p1 == IF pos = 0 /\ ~alarm1Active THEN 1 ELSE pos
         IN  IF p1 = 1 /\ ~alarm2Active THEN 2 ELSE p1

\* One round of the do-while loops of the DELETE_ALARM screen with no test
\* of the slot it lands on.
SkipLoopOneRound(pos, step, fuel) ==
    (pos + step) % 3

\* The do-while loops of the DELETE_ALARM screen: step is 2 for Up, 1 for
\* Down.  The cursor after the loop, or -1 if the loop has not ended after
\* fuel + 1 rounds.
RECURSIVE SkipLoop(_, _, _)
SkipLoop(pos, step, fuel) ==
    LET p == (pos + step) % 3
    IN  IF (p = 0 /\ ~alarm1Active) \/ (p = 1 /\ ~alarm2Active)
        THEN IF fuel = 0 THEN -1 ELSE SkipLoop(p, step, fuel - 1)
        ELSE p

RunDeleteAlarmWith(lines) ==
    LET b == check_button_press(now, lines)
        toConfirm1 == b = "OK_BTN" /\ menuPosition = 0 /\ alarm1Active
        toConfirm2 == b = "OK_BTN" /\ menuPosition = 1 /\ alarm2Active
        back == \/ b = "CANCEL_BTN"
                \/ (b = "OK_BTN" /\ ~toConfirm1 /\ ~toConfirm2
                    /\ menuPosition = 2)
    IN  /\ InRunMode
        /\ currentState = "DELETE_ALARM"
        /\ Accepted(b)
        /\ IF ~menuInitialized
           THEN /\ menuPosition' =
                    display_delete_alarm_menu(DeleteMenuEntry(menuPosition))
                /\ menuInitialized' = TRUE
                /\ UNCHANGED currentState
           ELSE IF b = "UP"
           THEN /\ menuPosition' =
                    display_delete_alarm_menu(SkipLoop(menuPosition, 2, 3))
                /\ UNCHANGED <<currentState, menuInitialized>>
           ELSE IF b = "DOWN"
           THEN /\ menuPosition' =
                    display_delete_alarm_menu(SkipLoop(menuPosition, 1, 3))
                /\ UNCHANGED <<currentState, menuInitialized>>
           ELSE IF toConfirm1 \/ toConfirm2
           THEN /\ currentState' = IF toConfirm1 THEN "DELETE_ALARM_1"
                                   ELSE "DELETE_ALARM_2"
                /\ menuInitialized' = FALSE
                /\ UNCHANGED menuPosition
           ELSE IF back
           THEN go_to_menu
           ELSE UNCHANGED <<currentState, menuPosition, menuInitialized>>
        /\ now' = AfterPoll(now, b)
        /\ now' <= MaxNow
        /\ UNCHANGED <<alarmSettingState, settingHour, settingMinute,
                       tzVars, alarmVars, ringVars, pc, dials, warnings>>

RunDeleteAlarm ==
    \E lines \in Levels : RunDeleteAlarmWith(lines)

---------------------------------------------------------------------------
(* delete_alarm_1 / delete_alarm_2: the blocking confirmation *)

\* run_mode on DELETE_ALARM_1/2 with a button pressed calls delete_alarm_N,
\* which draws the confirmation screen and enters its wait loop.
RunDeleteConfirmWith(lines) ==
    LET b == check_button_press(now, lines)
    IN  /\ InRunMode
        /\ currentState \in {"DELETE_ALARM_1", "DELETE_ALARM_2"}
        /\ Accepted(b)
        /\ pc' = IF currentState = "DELETE_ALARM_1" THEN "confirm1"
                 ELSE "confirm2"
        /\ now' = AfterPoll(now, b)
        /\ now' <= MaxNow
        /\ UNCHANGED <<navVars, tzVars, alarmVars, ringVars, dials, warnings>>

RunDeleteConfirm ==
    \E lines \in Levels : RunDeleteConfirmWith(lines)

\* One iteration of the outer while (true) of delete_alarm_N in which a line
\* is LOW.
ConfirmPollWith(lines) ==
    LET b == check_button_press(now, lines)
        t == AfterPoll(now, b)
    IN  /\ pc \in {"confirm1", "confirm2"}
        /\ Counted(b, lines)
        /\ lastButtonPressTime' =
               IF b # "NONE" THEN now ELSE lastButtonPressTime
        /\ IF b = "OK_BTN"
           THEN /\ alarm1Active' = IF pc = "confirm1" THEN FALSE
                                   ELSE alarm1Active
                /\ alarm2Active' = IF pc = "confirm2" THEN FALSE
                                   ELSE alarm2Active
                /\ pc' = "deleted"
                /\ now' = t
                /\ UNCHANGED <<currentState, menuPosition,
                               menuInitialized>>
           ELSE IF b = "CANCEL_BTN"
           THEN /\ currentState' = "DELETE_ALARM"
                /\ menuPosition' = 0
                /\ menuInitialized' = FALSE
                /\ pc' = "loop"
                /\ now' = t
                /\ UNCHANGED <<alarm1Active, alarm2Active>>
           ELSE /\ now' = t + WAIT_LOOP_DELAY
                /\ UNCHANGED <<currentState, menuPosition,
                               menuInitialized, alarm1Active,
                               alarm2Active, pc>>
        /\ now' <= MaxNow
        /\ UNCHANGED <<alarmSettingState, settingHour, settingMinute,
                       alarm1Hour, alarm1Minute, alarm2Hour,
                       alarm2Minute, tzVars, ringVars, dials, warnings>>

ConfirmPoll ==
    \E lines \in Levels \ {{}} : ConfirmPollWith(lines)

\* One iteration of the inner while (true) of delete_alarm_N ("Press any
\* button") in which a line is LOW.
DeletedPollWith(lines) ==
    LET b == check_button_press(now, lines)
        t == AfterPoll(now, b)
    IN  /\ pc = "deleted"
        /\ Counted(b, lines)
        /\ lastButtonPressTime' =
               IF b # "NONE" THEN now ELSE lastButtonPressTime
        /\ IF b # "NONE"
           THEN /\ go_to_menu
                /\ pc' = "loop"
                /\ now' = t
           ELSE /\ now' = t + WAIT_LOOP_DELAY
                /\ UNCHANGED <<currentState, menuPosition,
                               menuInitialized, pc>>
        /\ now' <= MaxNow
        /\ UNCHANGED <<alarmSettingState, settingHour, settingMinute,
                       tzVars, alarmVars, ringVars, dials, warnings>>

DeletedPoll ==
    \E lines \in Levels \ {{}} : DeletedPollWith(lines)

---------------------------------------------------------------------------
Next ==
    \/ Elapse
    \/ LoopNormalDisplay
    \/ LoopRinging
    \/ RunModeNoButton
    \/ RunMainMenu
    \/ RunSetTimezone
    \/ RunSetAlarm
    \/ RunViewAlarms
    \/ RunDeleteAlarm
    \/ RunDeleteConfirm
    \/ ConfirmPoll
    \/ DeletedPoll

Spec == Init /\ [][Next]_vars

---------------------------------------------------------------------------
(* The vocabulary of the specification, read off the globals *)

\* RingState.mode
Idle == ~alarmRinging /\ ~alarmSnoozing
Ringing == alarmRinging
Snoozed == alarmSnoozing /\ ~alarmRinging

\* One poll of the buttons with the lines in `lines` read LOW: a pass of
\* loop(), or one iteration of a wait loop of delete_alarm_1/2.
PollWith(lines) ==
    \/ \E timeOk \in BOOLEAN, sample \in Samples :
           LoopNormalDisplayWith(lines, timeOk, sample)
    \/ LoopRingingWith(lines)
    \/ RunModeNoButtonWith(lines)
    \/ RunMainMenuWith(lines)
    \/ RunSetTimezoneWith(lines)
    \/ RunSetAlarmWith(lines)
    \/ RunViewAlarmsWith(lines)
    \/ RunDeleteAlarmWith(lines)
    \/ RunDeleteConfirmWith(lines)
    \/ ConfirmPollWith(lines)
    \/ DeletedPollWith(lines)

\* The step is a poll in which check_button_press returned button b: an
\* accepted press stamps lastButtonPressTime with the time of the poll.
Event(b) ==
    \E lines \in Levels :
        /\ PollWith(lines)
        /\ lastButtonPressTime' # lastButtonPressTime
        /\ check_button_press(lastButtonPressTime', lines) = b

\* A pass of loop() in which getLocalTime succeeds.
PassWithTime ==
    \E lines \in Levels :
        \/ \E sample \in Samples : LoopNormalDisplayWith(lines, TRUE, sample)
        \/ LoopRingingWith(lines)
        \/ RunModeNoButtonWith(lines)
        \/ RunMainMenuWith(lines)
        \/ RunSetTimezoneWith(lines)
        \/ RunSetAlarmWith(lines)
        \/ RunViewAlarmsWith(lines)
        \/ RunDeleteAlarmWith(lines)
        \/ RunDeleteConfirmWith(lines)

\* The adjusted time at t is the :00 second of alarm a, and a is active.
AlarmDue(a, t) ==
    /\ tm_sec(t) = 0
    /\ IF a = 1
       THEN alarm1Active /\ tm_hour(t) = alarm1Hour /\ tm_min(t) = alarm1Minute
       ELSE alarm2Active /\ tm_hour(t) = alarm2Hour /\ tm_min(t) = alarm2Minute

\* The minute occurrence millis() = t lies in.
MinuteOf(t) == (BootTimeOfDay + t) \div MinuteMs

---------------------------------------------------------------------------
(* C1 *)

\* C1: for every active alarm a, a pass of loop() that starts in mode Idle
\* at the :00 second of a's minute, with the time available, ends with the
\* alarm ringing as alarm a (alarm 2 unless alarm 1 is due in the same
\* second), whatever screen the menu is on.
C1_RingsOnAnyScreen ==
    [][\A a \in {1, 2} :
           (/\ pc = "loop" /\ Idle /\ AlarmDue(a, now)
            /\ (a = 2 => ~AlarmDue(1, now))
            /\ PassWithTime)
           => (alarmRinging' /\ alarmRingingNum' = a)]_vars

\* C1, on the normal display only: there the pass calls ring_alarm(a) at its
\* start and ends with the alarm ringing.
C1_RingsOnNormalDisplay ==
    [][\A a \in {1, 2} :
           (/\ pc = "loop" /\ Idle /\ AlarmDue(a, now)
            /\ (a = 2 => ~AlarmDue(1, now))
            /\ currentState = "NORMAL_DISPLAY"
            /\ PassWithTime)
           => (alarmRinging' /\ alarmRingingNum' = a
               /\ alarmStartTime' = now)]_vars

\* C1: a menu is open at the :00 second of an active alarm's minute, in mode
\* Idle.
C1_DueWithMenuOpen ==
    /\ pc = "loop" /\ Idle
    /\ currentState # "NORMAL_DISPLAY"
    /\ \E a \in {1, 2} : AlarmDue(a, now)

---------------------------------------------------------------------------
(* C2 *)

\* C2: an alarm that has rung and has been stopped does not enter Ringing
\* from Idle again in the minute occurrence it last started ringing in: a
\* step from Idle that rings the alarm that rang last starts the ring in
\* another minute occurrence.
C2_NoRefireInSameMinute ==
    [][(/\ Idle /\ alarmRingingNum # 0
        /\ alarmRinging' /\ alarmRingingNum' = alarmRingingNum)
       => MinuteOf(alarmStartTime') # MinuteOf(alarmStartTime)]_vars

\* C2: alarm 1 has rung and been stopped, the normal display is back and the
\* clock is still in the minute occurrence the ring started in, which is the
\* alarm's own minute.
C2_StoppedInAlarmMinute ==
    /\ pc = "loop" /\ Idle
    /\ currentState = "NORMAL_DISPLAY"
    /\ alarmRingingNum = 1 /\ alarm1Active
    /\ tm_hour(now) = alarm1Hour /\ tm_min(now) = alarm1Minute
    /\ MinuteOf(now) = MinuteOf(alarmStartTime)

---------------------------------------------------------------------------
(* C3 *)

\* C3, the Snooze event: the button loop() routes to stop_alarm(true) is UP;
\* accepted while the alarm rings it leaves the mode Snoozed with the same
\* alarm id and snoozeStartTime the time of the call.
C3_SnoozeEvent ==
    [][(Ringing /\ Event("UP"))
       => (/\ alarmSnoozing' /\ ~alarmRinging'
           /\ snoozeStartTime' = lastButtonPressTime' + BUTTON_DELAY
           /\ alarmRingingNum' = alarmRingingNum)]_vars

\* C3, not before 5 minutes: a step that calls ring_alarm from Snoozed does
\* so at least SNOOZE_DURATION after snoozeStartTime and rings the same id.
C3_NoEarlyReRing ==
    [][(Snoozed /\ alarmStartTime' # alarmStartTime)
       => (/\ alarmStartTime' - snoozeStartTime >= SNOOZE_DURATION
           /\ alarmRingingNum' = alarmRingingNum)]_vars

\* C3: a Snooze event while Ringing yields Snoozed with snoozeStartedAt = now;
\* from Snoozed the mode never becomes Ringing before 5 minutes have elapsed;
\* and once they have, it becomes Ringing again with the same alarm id on the
\* next poll, whatever the buttons do.
C3_SnoozeLifecycle ==
    [][/\ (Ringing /\ Event("UP"))
          => (/\ alarmSnoozing' /\ ~alarmRinging'
              /\ snoozeStartTime' = lastButtonPressTime' + BUTTON_DELAY
              /\ alarmRingingNum' = alarmRingingNum)
       /\ (Snoozed /\ alarmStartTime' # alarmStartTime)
          => (/\ alarmStartTime' - snoozeStartTime >= SNOOZE_DURATION
              /\ alarmRingingNum' = alarmRingingNum)
       /\ (/\ Snoozed /\ SnoozeDue(now)
           /\ \E lines \in Levels : PollWith(lines))
          => (alarmStartTime' = now /\ alarmRingingNum' = alarmRingingNum)
      ]_vars

\* C3: the snooze has run out while delete_alarm_1/2 waits for a button.
C3_DueInsideWaitLoop ==
    /\ pc # "loop"
    /\ Snoozed /\ SnoozeDue(now)

\* C3: the snooze has run out and loop() has rung the alarm again.
C3_ReRung ==
    /\ Ringing
    /\ alarmStartTime >= snoozeStartTime + SNOOZE_DURATION
    /\ snoozeStartTime > 0

---------------------------------------------------------------------------
(* C4 *)

\* C4: while the mode is Ringing or Snoozed no step changes the screen, the
\* cursor, the staged alarm values, the alarm registry or the timezone
\* offset.
C4_NavigatorSuppressed ==
    [][(Ringing \/ Snoozed)
       => UNCHANGED <<navVars, alarmVars, timeZoneOffset>>]_vars

\* C4, Ringing alone.
C4_SuppressedWhileRinging ==
    [][Ringing => UNCHANGED <<navVars, alarmVars, timeZoneOffset>>]_vars

\* C4: the menu is open while the alarm is snoozed and not yet due.
C4_MenuOpenWhileSnoozed ==
    /\ Snoozed /\ ~SnoozeDue(now)
    /\ currentState # "NORMAL_DISPLAY"

---------------------------------------------------------------------------
(* C5 *)

\* C5: in no reachable state is the servicing of a snooze that has run out
\* held up inside a wait loop that only a button ends.
C5_NoServicingHeldUp ==
    ~(pc # "loop" /\ alarmSnoozing /\ SnoozeDue(now))

\* C5: control is inside the wait loop of delete_alarm_1 or delete_alarm_2.
C5_InsideWaitLoop ==
    pc \in {"confirm1", "confirm2", "deleted"}

---------------------------------------------------------------------------
(* C6 *)

\* C6: no button is accepted at a moment when the mode is Snoozed and 5
\* minutes or more have elapsed since snoozeStartTime, unless the same pass
\* has first rung the alarm again.
C6_ExpiryBeforeDispatch ==
    [][(/\ Snoozed /\ SnoozeDue(now)
        /\ lastButtonPressTime' # lastButtonPressTime)
       => alarmStartTime' = now]_vars

\* C6: a button has been accepted by the wait loop of delete_alarm_1/2 after
\* the snooze ran out, and the alarm is still snoozed.
C6_AcceptedAfterExpiry ==
    /\ Snoozed
    /\ lastButtonPressTime >= snoozeStartTime + SNOOZE_DURATION

---------------------------------------------------------------------------
(* C7 *)

\* C7: a Stop event (CANCEL_BTN accepted) while the mode is Ringing or
\* Snoozed leaves the mode Idle.
C7_StopEndsRingingAndSnoozed ==
    [][((Ringing \/ Snoozed) /\ Event("CANCEL_BTN")) => Idle']_vars

\* C7, Ringing alone.
C7_StopEndsRinging ==
    [][(Ringing /\ Event("CANCEL_BTN")) => Idle']_vars

\* C7: CANCEL_BTN has just been accepted on the normal display while the
\* alarm is snoozed.
C7_PressedWhileSnoozed ==
    /\ Snoozed /\ ~SnoozeDue(now)
    /\ currentState = "NORMAL_DISPLAY"
    /\ lastButtonPressTime > snoozeStartTime
    /\ now = lastButtonPressTime + BUTTON_DELAY

---------------------------------------------------------------------------
(* C8 *)

\* C8: alarmRinging and alarmSnoozing are never both true.
C8_RingingSnoozedExclusive ==
    ~(alarmRinging /\ alarmSnoozing)

\* C8: the alarm has matched, been snoozed, rung again when the snooze ran
\* out, and been stopped.
C8_StoppedAfterReRing ==
    /\ Idle
    /\ alarmRingingNum # 0
    /\ snoozeStartTime > 0
    /\ alarmStartTime >= snoozeStartTime + SNOOZE_DURATION

---------------------------------------------------------------------------
(* C9 *)

\* C9, as stated: in mode Idle alarmRingingNum is 0.
C9_IdleHasNoAlarmId ==
    Idle => alarmRingingNum = 0

\* C9, as the code has it: while the mode is Ringing or Snoozed
\* alarmRingingNum is 1 or 2, and a Stop event leaves it as it is.
C9_StopKeepsAlarmId ==
    [][/\ (Ringing \/ Snoozed) => alarmRingingNum \in {1, 2}
       /\ (Ringing /\ Event("CANCEL_BTN"))
          => (Idle' /\ alarmRingingNum' = alarmRingingNum)]_vars

\* C9: stop_alarm(false) has just returned.
C9_JustStopped ==
    /\ Idle
    /\ alarmRingingNum \in {1, 2}
    /\ now = lastButtonPressTime + BUTTON_DELAY + STOP_MESSAGE_DELAY
    /\ lastButtonPressTime >= alarmStartTime + RING_BURST

---------------------------------------------------------------------------
(* C10 *)

\* C10, as stated: CANCEL_BTN accepted while the alarm rings leaves the mode
\* Snoozed with snoozeStartTime the time of the call.
C10_CancelSnoozes ==
    [][(Ringing /\ Event("CANCEL_BTN"))
       => (/\ alarmSnoozing' /\ ~alarmRinging'
           /\ snoozeStartTime' = lastButtonPressTime' + BUTTON_DELAY)]_vars

\* C10, as the code has it: CANCEL_BTN accepted while the alarm rings stops
\* it (mode Idle, snoozeStartTime untouched).
C10_CancelStops ==
    [][(Ringing /\ Event("CANCEL_BTN"))
       => (/\ ~alarmSnoozing' /\ ~alarmRinging'
           /\ snoozeStartTime' = snoozeStartTime)]_vars

\* C10: an alarm that was never snoozed has rung and CANCEL_BTN has stopped
\* it.
C10_StoppedByCancel ==
    /\ Idle
    /\ alarmRingingNum # 0
    /\ snoozeStartTime = 0
    /\ lastButtonPressTime >= alarmStartTime + RING_BURST

---------------------------------------------------------------------------
(* C11 *)

\* C11: the timezone offset stays within [-12.0, 12.0] h (-24 .. 24 half
\* hours) after every step; UP at 12.0 and DOWN at -12.0 leave it as it is;
\* and the offset at the upper (lower) edge is the one 30 times UP (DOWN)
\* from 0 end at.
C11_TimezoneSaturates ==
    [][/\ timeZoneOffset' \in -24 .. 24
       /\ (timeZoneOffset = 24 /\ Event("UP")) => timeZoneOffset' = 24
       /\ (timeZoneOffset = -24 /\ Event("DOWN")) => timeZoneOffset' = -24
       /\ timeZoneOffset' >= 24
          => TimezoneRepeat(0, "UP", 30) = timeZoneOffset'
       /\ timeZoneOffset' <= -24
          => TimezoneRepeat(0, "DOWN", 30) = timeZoneOffset']_vars

\* C11: on the SET_TIMEZONE screen UP has been pressed at 11.5 and again at
\* 12.0.
C11_UpAtTop ==
    /\ currentState = "SET_TIMEZONE"
    /\ timeZoneOffset = 24
    /\ dials = 2

---------------------------------------------------------------------------
(* C12 *)

\* The rendering C12 describes of an offset of tz half hours: "UTC", the
\* sign, the absolute whole hours, and ":30" exactly when there is a half
\* hour.
C12_Rendering(tz) ==
    <<"U", "T", "C">> \o (IF tz >= 0 THEN <<"+">> ELSE <<"-">>)
    \o String(abs(tz) \div 2)
    \o (IF tz % 2 # 0 THEN <<":", "3", "0">> ELSE <<>>)

\* C12: whenever the SET_TIMEZONE screen is up, format_timezone renders
\* every offset of -12.0 .. 12.0 h as C12 describes, and 12.0 as "UTC+12",
\* 7.5 as "UTC+7:30", -0.5 as "UTC-0:30".
C12_FormatTimezone ==
    currentState = "SET_TIMEZONE"
    => /\ \A tz \in -24 .. 24 : format_timezone(tz) = C12_Rendering(tz)
       /\ format_timezone(24) = <<"U", "T", "C", "+", "1", "2">>
       /\ format_timezone(15) = <<"U", "T", "C", "+", "7", ":", "3", "0">>
       /\ format_timezone(-1) = <<"U", "T", "C", "-", "0", ":", "3", "0">>

\* C12: the SET_TIMEZONE screen has been drawn with the offset -0.5 h.
C12_ShowsMinusHalf ==
    /\ currentState = "SET_TIMEZONE"
    /\ menuInitialized
    /\ timeZoneOffset = -1
    /\ format_timezone(timeZoneOffset)
           = <<"U", "T", "C", "-", "0", ":", "3", "0">>

---------------------------------------------------------------------------
(* C13 *)

\* C13: two accepted button events are at least DEBOUNCE_TIME apart,
\* whichever buttons they are: a step in which check_button_press accepts a
\* press (and stamps lastButtonPressTime with the time of the poll) makes
\* that poll at least 250 ms after the press accepted before it, so every
\* poll less than 250 ms after an accepted press returns NONE.
C13_DebounceWindow ==
    [][lastButtonPressTime' # lastButtonPressTime
       => lastButtonPressTime' - lastButtonPressTime >= DEBOUNCE_TIME]_vars

\* C13: inside the wait loop of delete_alarm_1/2 a poll with a line LOW has
\* been made within the debounce window of the press before it, and has
\* returned NONE.
C13_RejectedInWindow ==
    /\ pc \in {"confirm1", "confirm2"}
    /\ now > lastButtonPressTime + BUTTON_DELAY
    /\ now < lastButtonPressTime + DEBOUNCE_TIME

\* ---------------------------------------------------------------------
\* C14.  A button held down continuously yields a single event: while the
\* button accepted last has not been released, no poll reports it again.
C14_HoldGivesOneEvent ==
    [][~(/\ held # "NONE"
         /\ \E lines \in Levels :
               /\ held \in lines
               /\ PollWith(lines)
               /\ lastButtonPressTime' # lastButtonPressTime
               /\ check_button_press(lastButtonPressTime', lines) = held)]_vars

\* OK is still down when the debounce window of its own press has run out
\* and the main menu, which that press opened, polls the buttons.
C14_StillHeldAfterWindow ==
    /\ held = "OK_BTN"
    /\ currentState = "MAIN_MENU"
    /\ presses = 1
    /\ now >= lastButtonPressTime + DEBOUNCE_TIME

\* ---------------------------------------------------------------------
\* C15.  On the delete menu the cursor is never on the slot of an inactive
\* alarm: whenever the screen is DELETE_ALARM, cursor 0 means alarm 1 is
\* active and cursor 1 means alarm 2 is active, from entry onward.
C15_CursorOnActiveSlot ==
    currentState = "DELETE_ALARM"
    => /\ menuPosition = 0 => alarm1Active
       /\ menuPosition = 1 => alarm2Active

\* Once the delete menu has been drawn its cursor is on Back or on the slot
\* of an active alarm.
C15_DrawnCursorOnActiveSlot ==
    (currentState = "DELETE_ALARM" /\ menuInitialized)
    => /\ menuPosition \in 0 .. 2
       /\ menuPosition = 0 => alarm1Active
       /\ menuPosition = 1 => alarm2Active
       /\ (~alarm1Active /\ ~alarm2Active) => menuPosition = 2

\* With alarm 2 the only active alarm, its deletion was cancelled at the
\* confirmation: the screen is the delete menu again.
C15_CancelledConfirm2 ==
    /\ currentState = "DELETE_ALARM"
    /\ ~menuInitialized
    /\ ~alarm1Active
    /\ alarm2Active
    /\ menuPosition = 0
    /\ presses = 4
    /\ pc = "loop"

\* ---------------------------------------------------------------------
\* C16.  On the alarm editor Up and Down step the staged hour modulo 24 and
\* the staged minute modulo 60, wrapping both ways, so the staged values and
\* the saved alarms always have an hour in 0..23 and a minute in 0..59.
C16_AlarmDialsWrap ==
    [][/\ settingHour' \in 0 .. 23 /\ settingMinute' \in 0 .. 59
       /\ alarm1Hour' \in 0 .. 23 /\ alarm1Minute' \in 0 .. 59
       /\ alarm2Hour' \in 0 .. 23 /\ alarm2Minute' \in 0 .. 59
       /\ (RunSetAlarm /\ alarmSettingState = "SETTING_HOUR")
          => /\ Event("UP")
                => settingHour' =
                       IF settingHour = 23 THEN 0 ELSE settingHour + 1
             /\ Event("DOWN")
                => settingHour' =
                       IF settingHour = 0 THEN 23 ELSE settingHour - 1
             /\ settingMinute' = settingMinute
       /\ (RunSetAlarm /\ alarmSettingState = "SETTING_MINUTE")
          => /\ Event("UP")
                => settingMinute' =
                       IF settingMinute = 59 THEN 0 ELSE settingMinute + 1
             /\ Event("DOWN")
                => settingMinute' =
                       IF settingMinute = 0 THEN 59 ELSE settingMinute - 1
             /\ settingHour' = settingHour]_vars

\* Down at hour 0 has wrapped the staged hour to 23, or Down at minute 0 the
\* staged minute to 59.
C16_WrappedBelowZero ==
    /\ currentState \in {"SET_ALARM_1", "SET_ALARM_2"}
    /\ dials = 1
    /\ \/ alarmSettingState = "SETTING_HOUR" /\ settingHour = 23
       \/ alarmSettingState = "SETTING_MINUTE" /\ settingMinute = 59

\* A pass of loop() on the normal display whose sample is not a number.
FailedSamplePass(lines, timeOk) ==
    \E sample \in {x \in Samples : SampleFailed(x[1], x[2])} :
        LoopNormalDisplayWith(lines, timeOk, sample)

\* ---------------------------------------------------------------------
\* C17.  A pass of loop() whose sample has a not-a-number temperature or
\* humidity gets nothing from check_temp: no warning is raised and no time
\* is spent on one, the alarms are as before, and the ring state is as
\* before unless the clock step of the same pass rang an alarm; with no
\* reading of the clock and no button down the pass changes nothing at all.
C17_FailedSampleChangesNothing ==
    [][(pc = "loop" /\ currentState = "NORMAL_DISPLAY")
       => /\ (\/ warnings' # warnings
              \/ alarmVars' # alarmVars
              \/ now' > now + RING_BURST + BUTTON_DELAY
              \/ ~alarmRinging' /\ ringVars' # ringVars)
             => ~\E lines \in Levels, timeOk \in BOOLEAN :
                    FailedSamplePass(lines, timeOk)
          /\ (alarmRinging' /\ ~alarmRinging)
             => \A lines \in Levels, timeOk \in BOOLEAN :
                    FailedSamplePass(lines, timeOk)
                    => timeOk /\ (AlarmDue(1, now) \/ AlarmDue(2, now))
          /\ <<navVars, tzVars, alarmVars, ringVars, lastButtonPressTime,
               now, pc, dials, presses, warnings>>'
             # <<navVars, tzVars, alarmVars, ringVars, lastButtonPressTime,
                 now, pc, dials, presses, warnings>>
             => ~FailedSamplePass({}, FALSE)]_vars

\* The normal display after a warning has been shown: the next sample may
\* fail, with or without a reading of the clock.
C17_FailedSampleAfterWarning ==
    /\ currentState = "NORMAL_DISPLAY"
    /\ Idle
    /\ warnings = 1
    /\ alarm1Active
    /\ ENABLED LoopNormalDisplayWith({"UP"}, TRUE, <<NaN, Value(70)>>)

\* A pass of loop() on the normal display in which getLocalTime fails.
NoTimePass(lines) ==
    \E sample \in Samples : LoopNormalDisplayWith(lines, FALSE, sample)

\* ---------------------------------------------------------------------
\* C18.  A pass of loop() in which getLocalTime gives no reading skips the
\* alarm match: it leaves the ring state as it is, so no alarm goes from
\* idle to ringing in it whatever alarms are set, and loop() goes on with
\* the next pass.
C18_NoTimeNoMatch ==
    [][(ringVars' # ringVars \/ pc' # "loop")
       => ~\E lines \in Levels : NoTimePass(lines)]_vars

\* Alarm 1 is due at this very instant and the sketch idles on the normal
\* display: a pass without a reading of the clock can be made, and it
\* leaves the sketch in this state.
C18_DueWithoutReading ==
    /\ currentState = "NORMAL_DISPLAY"
    /\ Idle
    /\ AlarmDue(1, now)
    /\ ENABLED NoTimePass({})

\* ---------------------------------------------------------------------
\* C19.  From the moment an alarm starts ringing, and so already in the rest
\* of the pass of loop() that called ring_alarm, no step changes the screen,
\* the cursor, the staged values, the alarms or the timezone offset: OK and
\* DOWN have no effect, and the poll of that pass does not open the menu.
C19_FrozenFromRingStart ==
    [][alarmRinging'
       => UNCHANGED <<navVars, alarmVars, timeZoneOffset>>]_vars

\* The alarm rang in a pass on the normal display, and the poll of the same
\* pass, right after the burst of ring_alarm, accepted OK.
C19_PressAcceptedInRingPass ==
    /\ alarmRinging
    /\ currentState = "MAIN_MENU"
    /\ presses = 2
    /\ lastButtonPressTime = alarmStartTime + RING_BURST
    /\ now = lastButtonPressTime + BUTTON_DELAY

\* ---------------------------------------------------------------------
\* C20.  Sampling the sensor never keeps an alarm from ringing: no pass of
\* loop() that has a reading of the clock and finds the sketch idle on the
\* normal display is still busy when the whole :00 second of an active alarm
\* has gone by, unless it rang an alarm itself.
C20_SamplingNeverBlocksAlarm ==
    [][(/\ Idle
        /\ currentState = "NORMAL_DISPLAY"
        /\ \/ /\ alarm1Active
              /\ now' >= now + UntilClock(now, alarm1Hour, alarm1Minute)
                         + 1000
           \/ /\ alarm2Active
              /\ now' >= now + UntilClock(now, alarm2Hour, alarm2Minute)
                         + 1000
        /\ \E lines \in Levels, sample \in Samples :
               LoopNormalDisplayWith(lines, TRUE, sample))
       => alarmRinging']_vars

\* Alarm 1 has never rung, and the pass that began in the last millisecond
\* before its :00 second has just shown a warning for WARNING_DELAY.
C20_WarningOverAlarmSecond ==
    /\ currentState = "NORMAL_DISPLAY"
    /\ Idle
    /\ alarmRingingNum = 0
    /\ alarm1Active
    /\ warnings = 1
    /\ LocalMs(now) = (alarm1Hour * 60 + alarm1Minute) * MinuteMs
                      + WARNING_DELAY - 1

\* ---------------------------------------------------------------------
\* C21.  When both alarms are active and set for the same minute, the pass
\* of loop() that finds the sketch idle at second 0 of that minute rings
\* alarm 1, never alarm 2: alarmRingingNum is 1 and the ring starts once.
C21_Alarm1TakesPriority ==
    [][(/\ Idle
        /\ alarmRinging'
        /\ AlarmDue(1, alarmStartTime')
        /\ AlarmDue(2, alarmStartTime'))
       => /\ alarmRingingNum' = 1
          /\ alarmStartTime' = now
          /\ ~alarmSnoozing']_vars

\* An alarm rings that was started at an instant at which both alarms were
\* due.
C21_BothDueRinging ==
    /\ alarmRinging
    /\ alarmRingingNum = 1
    /\ AlarmDue(1, alarmStartTime)
    /\ AlarmDue(2, alarmStartTime)

\* ---------------------------------------------------------------------
\* C22.  On the SET_TIMEZONE screen every UP below +12 h raises the stored
\* offset by one half hour and every DOWN above -12 h lowers it by one half
\* hour, the first event after the screen is entered included.
C22_EveryEventSteps ==
    [][RunSetTimezone
       => /\ (Event("UP") /\ timeZoneOffset < 24)
             => timeZoneOffset' = timeZoneOffset + 1
          /\ (Event("DOWN") /\ timeZoneOffset > -24)
             => timeZoneOffset' = timeZoneOffset - 1]_vars

\* C22 for the events that find the screen drawn.
C22_StepsOnceDrawn ==
    [][(RunSetTimezone /\ menuInitialized)
       => /\ (Event("UP") /\ timeZoneOffset < 24)
             => timeZoneOffset' = timeZoneOffset + 1
          /\ (Event("DOWN") /\ timeZoneOffset > -24)
             => timeZoneOffset' = timeZoneOffset - 1]_vars

\* The first event on the screen has been accepted: it drew the screen, and
\* the offset is the one the screen was entered with.
C22_FirstEventOnlyDrew ==
    /\ currentState = "SET_TIMEZONE"
    /\ menuInitialized
    /\ presses = 3
    /\ dials = 0
    /\ timeZoneOffset = 0
    /\ now = lastButtonPressTime + BUTTON_DELAY

\* ---------------------------------------------------------------------
\* C23.  On the SET_TIMEZONE screen CANCEL returns to the main menu and
\* rolls nothing back: the stored offset is the one just before CANCEL, and
\* nothing is passed to configTime.
C23_CancelReturnsKeepingOffset ==
    [][(RunSetTimezone /\ Event("CANCEL_BTN"))
       => /\ currentState' = "MAIN_MENU"
          /\ timeZoneOffset' = timeZoneOffset
          /\ configOffset' = configOffset]_vars

\* C23 without the return: no CANCEL on the screen touches the stored
\* offset or configTime.
C23_CancelKeepsOffset ==
    [][(RunSetTimezone /\ Event("CANCEL_BTN"))
       => /\ timeZoneOffset' = timeZoneOffset
          /\ configOffset' = configOffset
          /\ menuInitialized => currentState' = "MAIN_MENU"]_vars

\* The screen has just been selected from the main menu, and CANCEL can be
\* its first event.
C23_CancelAsFirstEvent ==
    /\ currentState = "SET_TIMEZONE"
    /\ ~menuInitialized
    /\ ENABLED RunSetTimezoneWith({"CANCEL_BTN"})

\* ---------------------------------------------------------------------
\* C24.  On the alarm editor OK on the hour only moves on to the minute; OK
\* on the minute saves the staged hour and minute into the alarm of the
\* screen, marks it active, leaves the other alarm as it is and returns to
\* the main menu; CANCEL returns to the main menu; and nothing but OK on the
\* minute changes an alarm.
C24_SelectSavesCancelDiscards ==
    [][RunSetAlarm
       => /\ (Event("OK_BTN") /\ alarmSettingState = "SETTING_HOUR")
             => /\ alarmSettingState' = "SETTING_MINUTE"
                /\ UNCHANGED <<currentState, settingHour, settingMinute>>
          /\ (/\ Event("OK_BTN")
              /\ alarmSettingState = "SETTING_MINUTE"
              /\ currentState = "SET_ALARM_1")
             => /\ alarm1Active'
                /\ alarm1Hour' = settingHour
                /\ alarm1Minute' = settingMinute
                /\ UNCHANGED <<alarm2Active, alarm2Hour, alarm2Minute>>
                /\ currentState' = "MAIN_MENU"
          /\ (/\ Event("OK_BTN")
              /\ alarmSettingState = "SETTING_MINUTE"
              /\ currentState = "SET_ALARM_2")
             => /\ alarm2Active'
                /\ alarm2Hour' = settingHour
                /\ alarm2Minute' = settingMinute
                /\ UNCHANGED <<alarm1Active, alarm1Hour, alarm1Minute>>
                /\ currentState' = "MAIN_MENU"
          /\ Event("CANCEL_BTN") => currentState' = "MAIN_MENU"
          /\ ~(Event("OK_BTN") /\ alarmSettingState = "SETTING_MINUTE")
             => UNCHANGED alarmVars]_vars

\* Alarm 2 has just been saved with a staged hour other than alarm 1's,
\* which is still active.
C24_SavedSecondAlarm ==
    /\ currentState = "MAIN_MENU"
    /\ alarm1Active /\ alarm2Active
    /\ alarm2Hour # alarm1Hour
    /\ alarm2Hour = settingHour
    /\ now = lastButtonPressTime + BUTTON_DELAY + ALARM_SET_MESSAGE_DELAY

\* ---------------------------------------------------------------------
\* C25.  On the main menu the cursor is one of 0..5: UP at 0 and DOWN at 5
\* leave it where it is, the menu is always entered with the cursor on 0,
\* and OK on entry 5 and CANCEL both lead to the normal display.
C25_MainMenuCursor ==
    /\ [](currentState = "MAIN_MENU" => menuPosition \in 0 .. 5)
    /\ [][/\ (currentState' = "MAIN_MENU" /\ currentState # "MAIN_MENU")
             => menuPosition' = 0
          /\ RunMainMenu
             => /\ Event("UP")
                   => /\ menuPosition' = IF menuPosition = 0 THEN 0
                                         ELSE menuPosition - 1
                      /\ currentState' = "MAIN_MENU"
                /\ Event("DOWN")
                   => /\ menuPosition' = IF menuPosition = 5 THEN 5
                                         ELSE menuPosition + 1
                      /\ currentState' = "MAIN_MENU"
                /\ Event("CANCEL_BTN") => currentState' = "NORMAL_DISPLAY"
                /\ (Event("OK_BTN") /\ menuPosition = 5)
                   => currentState' = "NORMAL_DISPLAY"]_vars

\* Six presses on the main menu have left the cursor on its last entry: one
\* of them was UP at 0 or DOWN at 5.
C25_CursorStoppedAtEdge ==
    /\ currentState = "MAIN_MENU"
    /\ menuPosition = 5
    /\ presses = 6

\* ---------------------------------------------------------------------
\* C26.  Whenever the screen is DELETE_ALARM the cursor is 0, 1 or 2, from
\* the moment the screen is entered.
C26_DeleteMenuCursorRange ==
    currentState = "DELETE_ALARM" => menuPosition \in 0 .. 2

\* C26 from the first drawing of the menu on.
C26_DrawnCursorRange ==
    (currentState = "DELETE_ALARM" /\ menuInitialized)
    => menuPosition \in 0 .. 2

\* Delete Alarm has just been selected on the main menu, five presses after
\* an alarm was saved.
C26_JustEntered ==
    /\ currentState = "DELETE_ALARM"
    /\ ~menuInitialized
    /\ presses = 5
    /\ now = lastButtonPressTime + BUTTON_DELAY

\* ---------------------------------------------------------------------
\* C27.  On the delete menu every event is handled by the table, the first
\* one after entry included: OK on the slot of an active alarm opens the
\* confirmation of that alarm, OK on Back and CANCEL return to the main
\* menu, and none of them changes an alarm.
C27_EveryEventHandled ==
    [][RunDeleteAlarm
       => /\ Event("CANCEL_BTN") => currentState' = "MAIN_MENU"
          /\ (Event("OK_BTN") /\ menuPosition = 2)
             => currentState' = "MAIN_MENU"
          /\ (Event("OK_BTN") /\ menuPosition = 0 /\ alarm1Active)
             => currentState' = "DELETE_ALARM_1"
          /\ (Event("OK_BTN") /\ menuPosition = 1 /\ alarm2Active)
             => currentState' = "DELETE_ALARM_2"
          /\ UNCHANGED alarmVars]_vars

\* C27 for the events that find the menu drawn.
C27_HandledOnceDrawn ==
    [][(RunDeleteAlarm /\ menuInitialized)
       => /\ Event("CANCEL_BTN") => currentState' = "MAIN_MENU"
          /\ (Event("OK_BTN") /\ menuPosition = 2)
             => currentState' = "MAIN_MENU"
          /\ (Event("OK_BTN") /\ menuPosition = 0 /\ alarm1Active)
             => currentState' = "DELETE_ALARM_1"
          /\ (Event("OK_BTN") /\ menuPosition = 1 /\ alarm2Active)
             => currentState' = "DELETE_ALARM_2"
          /\ UNCHANGED alarmVars]_vars

\* The first event on the delete menu has been accepted: it drew the menu
\* and put the cursor on the first active alarm, and the screen is still the
\* delete menu.
C27_FirstEventOnlyDrewMenu ==
    /\ currentState = "DELETE_ALARM"
    /\ menuInitialized
    /\ presses = 1
    /\ now = lastButtonPressTime + BUTTON_DELAY

\* ---------------------------------------------------------------------
\* C28.  On the confirmation of a deletion OK makes the alarm of the screen
\* inactive, leaves the other alarm and every hour and minute as they are
\* and returns to the delete menu; CANCEL returns to the delete menu and
\* changes no alarm.
C28_ConfirmReturnsToDeleteMenu ==
    [][(/\ currentState \in {"DELETE_ALARM_1", "DELETE_ALARM_2"}
        /\ RunDeleteConfirm \/ ConfirmPoll)
       => /\ Event("OK_BTN")
             => /\ alarm1Active' = (alarm1Active
                                    /\ currentState # "DELETE_ALARM_1")
                /\ alarm2Active' = (alarm2Active
                                    /\ currentState # "DELETE_ALARM_2")
                /\ UNCHANGED <<alarm1Hour, alarm1Minute,
                               alarm2Hour, alarm2Minute>>
                /\ currentState' = "DELETE_ALARM"
          /\ Event("CANCEL_BTN")
             => /\ currentState' = "DELETE_ALARM"
                /\ UNCHANGED alarmVars]_vars

\* C28 as delete_alarm_1 and delete_alarm_2 do it: inside their wait loop
\* OK makes the alarm of the screen inactive and nothing else, and the next
\* button, read by the inner loop, leads to the main menu; CANCEL returns
\* to the delete menu and changes no alarm.
C28_ConfirmDeletesThenMainMenu ==
    [][/\ ConfirmPoll
          => /\ Event("OK_BTN")
                => /\ alarm1Active' = (alarm1Active /\ pc # "confirm1")
                   /\ alarm2Active' = (alarm2Active /\ pc # "confirm2")
                   /\ UNCHANGED <<alarm1Hour, alarm1Minute,
                                  alarm2Hour, alarm2Minute>>
                   /\ pc' = "deleted"
             /\ Event("CANCEL_BTN")
                => /\ currentState' = "DELETE_ALARM"
                   /\ pc' = "loop"
                   /\ UNCHANGED alarmVars
       /\ (DeletedPoll /\ lastButtonPressTime' # lastButtonPressTime)
          => /\ currentState' = "MAIN_MENU"
             /\ pc' = "loop"
             /\ UNCHANGED alarmVars]_vars

\* Alarm 1 has just been deleted at its confirmation: the sketch shows
\* "ALARM 1 DELETED" and waits for any button.
C28_DeletedAtConfirmation ==
    /\ pc = "deleted"
    /\ currentState = "DELETE_ALARM_1"
    /\ ~alarm1Active
    /\ now = lastButtonPressTime + BUTTON_DELAY

C30_RingingAlarmIsActive ==
    (alarmRinging \/ alarmSnoozing)
    => \/ alarmRingingNum = 1 /\ alarm1Active
       \/ alarmRingingNum = 2 /\ alarm2Active

\* Alarm 1 was deleted while it was snoozed, the snooze has run out, and
\* check_snooze has rung it again.
C30_DeletedAlarmRings ==
    /\ alarmRinging
    /\ alarmRingingNum = 1
    /\ ~alarm1Active
    /\ alarmStartTime >= snoozeStartTime + SNOOZE_DURATION

\* ---------------------------------------------------------------------
\* C31.  The skip loop that an UP or a DOWN event runs on the drawn delete
\* menu ends within three rounds, for every combination of alarm1Active and
\* alarm2Active and every cursor 0, 1 or 2 it starts from; it ends on Back
\* (2) or on the slot of an active alarm, and on Back when no alarm is
\* active.  The cursor the event leaves is the one the loop ended on.
C31_SkipLoopEnds ==
    /\ [](\A pos \in 0..2, step \in {1, 2} :
            LET p == SkipLoop(pos, step, 2)
            IN  /\ p # -1
                /\ \/ p = 2
                   \/ p = 0 /\ alarm1Active
                   \/ p = 1 /\ alarm2Active
                /\ (~alarm1Active /\ ~alarm2Active) => p = 2)
    /\ [][(RunDeleteAlarm /\ menuInitialized)
          => /\ Event("UP") => menuPosition' = SkipLoop(menuPosition, 2, 2)
             /\ Event("DOWN") => menuPosition' = SkipLoop(menuPosition, 1, 2)
             /\ (Event("UP") \/ Event("DOWN"))
                => /\ currentState' = "DELETE_ALARM"
                   /\ menuPosition' \in 0..2]_vars

\* No alarm is active and the drawn delete menu has taken a second event,
\* which left the menu on the screen: it was UP or DOWN, and the loop went
\* from Back over both alarm slots to Back again.
C31_SkippedBothSlots ==
    /\ currentState = "DELETE_ALARM"
    /\ menuInitialized
    /\ ~alarm1Active /\ ~alarm2Active
    /\ menuPosition = 2
    /\ presses = 2
    /\ now = lastButtonPressTime + BUTTON_DELAY

===========================================================================
